---- MODULE Spec2Model ----
(***************************************************************************)
(* Atlas agent page (src/app/page.tsx): the heuristic matcher, the reply   *)
(* formatter and the conversation controller of the Home component.        *)
(*                                                                         *)
(* Strings are TLC strings; a character of s is SubSeq(s, i, i).  A        *)
(* Message is [author, content, hint]; its id (a random token) and its     *)
(* createdAt (a wall-clock reading) are never read by the code and are     *)
(* left out.                                                               *)
(***************************************************************************)
EXTENDS Integers, Sequences, FiniteSets, TLC

VARIABLES
    messages,    \* useState<Message[]>(initialMessages)
    input,       \* useState("")
    mode,        \* useState<ModeState>
    isThinking,  \* useState(false)
    closure,     \* the state values captured by the handlers of the last render of Home
    timers,      \* callbacks handed to setTimeout and not yet run, in order of scheduling
    trigger,     \* history: for each message, the position of the user message whose
                 \* submit created it (0: none)
    lastEvent,   \* history: the kind of the last event handled
    call         \* the last direct call of a pure function and what it returned

vars == <<messages, input, mode, isThinking, closure, timers, trigger, lastEvent, call>>

uiVars == <<messages, input, mode, isThinking, closure, timers, trigger, lastEvent>>

----------------------------------------------------------------------------
(* Bounds of the model *)

\* accepted submits in one run of the page
MaxSubmits == 2
\* words of an input handed to the matcher
MaxWords == 2
\* length of the first run of non-blank characters of a prompt handed to
\* summarizePrimaryTask
MaxPromptLen == 121

----------------------------------------------------------------------------
(* JavaScript string primitives *)

CharAt(s, i) == SubSeq(s, i, i)

\* the characters \s and trim() treat as white space, as far as inputs hold them
IsSpace(c) == c \in {" ", "\n", "\t"}

UpperCase == "ABCDEFGHIJKLMNOPQRSTUVWXYZ"

LowerCase == "abcdefghijklmnopqrstuvwxyz"

LowerChar(c) ==
    IF \E i \in 1..Len(UpperCase) : CharAt(UpperCase, i) = c
    THEN CharAt(LowerCase, CHOOSE i \in 1..Len(UpperCase) : CharAt(UpperCase, i) = c)
    ELSE c

\* the characters a..b of s in lower case (the range is halved at each call to
\* keep the evaluation shallow)
RECURSIVE LowerRange(_, _, _)
LowerRange(s, a, b) ==
    IF a > b THEN ""
    ELSE IF a = b THEN LowerChar(CharAt(s, a))
    ELSE LowerRange(s, a, (a + b) \div 2) \o LowerRange(s, ((a + b) \div 2) + 1, b)

\* String.prototype.toLowerCase
toLowerCase(s) == LowerRange(s, 1, Len(s))

\* the position of the first character of s that is no white space, Len(s) + 1 if none
FirstNonSpace(s) ==
    LET at == {i \in 1..Len(s) : ~IsSpace(CharAt(s, i))}
    IN  IF at = {} THEN Len(s) + 1 ELSE CHOOSE i \in at : \A j \in at : i <= j

\* the position of the last character of s that is no white space, 0 if none
LastNonSpace(s) ==
    LET at == {i \in 1..Len(s) : ~IsSpace(CharAt(s, i))}
    IN  IF at = {} THEN 0 ELSE CHOOSE i \in at : \A j \in at : j <= i

\* String.prototype.trim with its white space kept (what a missing trim leaves)
TrimNothing(s) == s

\* String.prototype.trim
trim(s) ==
    LET a == FirstNonSpace(s)
        b == LastNonSpace(s)
    IN  IF a > b THEN "" ELSE SubSeq(s, a, b)

\* what character i of s becomes when every run of white space is replaced by one
\* space: the first character of a run gives the space, the others nothing
CollapsedChar(s, i) ==
    IF ~IsSpace(CharAt(s, i)) THEN CharAt(s, i)
    ELSE IF i > 1 /\ IsSpace(CharAt(s, i - 1)) THEN ""
    ELSE " "

RECURSIVE CollapseRange(_, _, _)
CollapseRange(s, a, b) ==
    IF a > b THEN ""
    ELSE IF a = b THEN CollapsedChar(s, a)
    ELSE CollapseRange(s, a, (a + b) \div 2) \o CollapseRange(s, ((a + b) \div 2) + 1, b)

\* prompt.replace(/\s+/g, " ")
collapseSpaces(s) == CollapseRange(s, 1, Len(s))

\* String.prototype.includes
includes(s, k) ==
    \E i \in 0..(Len(s) - Len(k)) : SubSeq(s, i + 1, i + Len(k)) = k

RECURSIVE JoinFrom(_, _, _)
JoinFrom(parts, sep, i) ==
    IF i > Len(parts) THEN ""
    ELSE IF i = Len(parts) THEN parts[i]
    ELSE parts[i] \o sep \o JoinFrom(parts, sep, i + 1)

\* Array.prototype.join
join(parts, sep) == JoinFrom(parts, sep, 1)

\* Array.prototype.slice(-n)
sliceLast(seq, n) ==
    IF Len(seq) <= n THEN seq ELSE SubSeq(seq, Len(seq) - n + 1, Len(seq))

\* decimal rendering of a step number in a template literal
RECURSIVE toDecimal(_)
toDecimal(n) ==
    IF n < 10 THEN CharAt("0123456789", n + 1)
    ELSE toDecimal(n \div 10) \o CharAt("0123456789", (n % 10) + 1)

\* Boolean(x) of a string; null is modelled as ""
Truthy(s) == s # ""

----------------------------------------------------------------------------
(* Static data *)

Greeting ==
    "Hey there! I'm Atlas, your autonomous problem-solving agent. Drop a challenge below and I'll break it down, plan my moves, and deliver focused execution steps."

initialMessages ==
    << [author |-> "agent", content |-> Greeting, hint |-> "Ready when you are"] >>

quickPrompts ==
    << "Design a launch plan for a new productivity SaaS",
       "Break down a research workflow for market validation",
       "Draft a content calendar targeting AI engineers",
       "Map the first sprint for a web-based AI companion" >>

heuristics ==
    << [ keywords  |-> <<"plan", "roadmap", "milestone", "strategy">>,
         narrative |-> "You need a structured path. I'll break the objective into phases with crisp deliverables and checkpoints.",
         steps     |-> << "Clarify success metrics and guardrails",
                          "Sequence milestones with resource sizing",
                          "Highlight dependencies and risk mitigations" >> ],
       [ keywords  |-> <<"content", "write", "copy", "post">>,
         narrative |-> "Let's align voice, audience, and distribution to keep every piece on-message and high leverage.",
         steps     |-> << "Confirm target persona pains and desired outcomes",
                          "Outline a reusable pillar/cluster structure",
                          "Draft samples with tone, CTA, and repurposing notes" >> ],
       [ keywords  |-> <<"research", "analyze", "compare", "study">>,
         narrative |-> "I'll synthesize signals, highlight patterns, and surface what deserves deeper digging.",
         steps     |-> << "Frame hypotheses and evidence you already have",
                          "Collect primary/secondary sources with confidence tiers",
                          "Extract insights, contradictions, and suggested experiments" >> ],
       [ keywords  |-> <<"code", "build", "architecture", "feature">>,
         narrative |-> "I'll transform requirements into architecture, interfaces, and delivery sequencing.",
         steps     |-> << "Capture user flows and data contracts",
                          "Design modular components with integration notes",
                          "Plan implementation slices with testing anchors" >> ] >>

defaultResponse ==
    [ narrative |-> "I'll evaluate the request, stabilize assumptions, and recommend a pragmatic action plan.",
      steps     |-> << "Clarify the core objective and constraints",
                       "Identify the most leverage-first deliverables",
                       "Provide a tight feedback loop for the next iteration" >> ]

\* the bullet glyph that opens each line of the "Recent signals" listing
Bullet == "*"

\* the length from which summarizePrimaryTask no longer echoes the prompt
ConciseLimit == 120

----------------------------------------------------------------------------
(* Pure functions *)

\* candidate.keywords.some((keyword) => normalized.includes(keyword))
someKeyword(candidate, normalized) ==
    \E k \in 1..Len(candidate.keywords) : includes(normalized, candidate.keywords[k])

\* Array.prototype.find over heuristics: the index of the first match, 0 for undefined
RECURSIVE findFrom(_, _)
findFrom(normalized, i) ==
    IF i > Len(heuristics) THEN 0
    ELSE IF someKeyword(heuristics[i], normalized) THEN i
    ELSE findFrom(normalized, i + 1)

\* a find that scans the table from its end
RECURSIVE findLastFrom(_, _)
findLastFrom(normalized, i) ==
    IF i < 1 THEN 0
    ELSE IF someKeyword(heuristics[i], normalized) THEN i
    ELSE findLastFrom(normalized, i - 1)

\* pickNarrative returning the last matching rule instead of the first
pickNarrativeLastMatch(prompt) ==
    LET normalized == toLowerCase(prompt)
        match == findLastFrom(normalized, Len(heuristics))
    IN  IF match = 0 THEN defaultResponse ELSE heuristics[match]

pickNarrative(prompt) ==
    LET normalized == toLowerCase(prompt)
        match == findFrom(normalized, 1)
    IN  IF match = 0 THEN defaultResponse ELSE heuristics[match]

\* summarizePrimaryTask with the length test off by one (<= for <)
summarizePrimaryTaskInclusive(prompt, steps) ==
    LET concise == trim(collapseSpaces(prompt))
    IN  IF ~Truthy(concise)
        THEN IF Len(steps) > 0 THEN steps[1] ELSE "Establishing context"
        ELSE IF Len(concise) <= ConciseLimit
        THEN concise
        ELSE IF Len(steps) > 0 THEN steps[1] ELSE "Defining the objective"

summarizePrimaryTask(prompt, steps) ==
    LET concise == trim(collapseSpaces(prompt))
    IN  IF ~Truthy(concise)
        THEN IF Len(steps) > 0 THEN steps[1] ELSE "Establishing context"
        ELSE IF Len(concise) < ConciseLimit
        THEN concise
        ELSE IF Len(steps) > 0 THEN steps[1] ELSE "Defining the objective"

IsUser(msg) == msg.author = "user"

\* the "Recent signals" lines: the last two user messages of the history handed in
reflectionsOf(messageHistory) ==
    LET users == sliceLast(SelectSeq(messageHistory, IsUser), 2)
    IN  join([i \in 1..Len(users) |-> Bullet \o " " \o trim(users[i].content)], "\n")

analysisSegment(narrative, reflections) ==
    join(SelectSeq(<< "**Analysis**",
                      narrative,
                      IF Truthy(reflections) THEN "Recent signals:" ELSE "",
                      IF Truthy(reflections) THEN reflections ELSE "" >>, Truthy), "\n")

planSegment(steps) ==
    join(<<"**Plan**">> \o [i \in 1..Len(steps) |-> toDecimal(i) \o ". " \o steps[i]], "\n")

nextMoveSegment(input_, steps) ==
    join(<< "**Next Move**",
            "I'll start by focusing on: " \o summarizePrimaryTask(input_, steps) >>, "\n")

\* formatAgentMessage joining its segments with a single line break
formatAgentMessageNoBlankLine(input_, mode_, narrative, steps, messageHistory) ==
    LET reflections == reflectionsOf(messageHistory)
        segments ==
            (IF mode_.analysis THEN <<analysisSegment(narrative, reflections)>> ELSE <<>>)
            \o (IF mode_.planning THEN <<planSegment(steps)>> ELSE <<>>)
            \o (IF mode_.summary THEN <<nextMoveSegment(input_, steps)>> ELSE <<>>)
    IN  join(segments, "\n")

formatAgentMessage(input_, mode_, narrative, steps, messageHistory) ==
    LET reflections == reflectionsOf(messageHistory)
        segments ==
            (IF mode_.analysis THEN <<analysisSegment(narrative, reflections)>> ELSE <<>>)
            \o (IF mode_.planning THEN <<planSegment(steps)>> ELSE <<>>)
            \o (IF mode_.summary THEN <<nextMoveSegment(input_, steps)>> ELSE <<>>)
    IN  join(segments, "\n\n")

----------------------------------------------------------------------------
(* The Home component *)

ModeKeys == {"analysis", "planning", "summary"}

\* what the user types into the textarea between two events: nothing, white space
\* only, and a request with white space around it
TypedTexts == {"", "  \n", "  " \o quickPrompts[1] \o "\n"}

\* the quick-prompt buttons the user clicks (positions in quickPrompts; every button
\* runs the same handler)
ClickedPrompts == {1}

NoCall == [fn |-> "none"]

Init ==
    /\ messages = initialMessages
    /\ input = ""
    /\ mode = [analysis |-> TRUE, planning |-> TRUE, summary |-> TRUE]
    /\ isThinking = FALSE
    /\ closure = [messages |-> initialMessages, input |-> "",
                  mode |-> [analysis |-> TRUE, planning |-> TRUE, summary |-> TRUE],
                  isThinking |-> FALSE]
    /\ timers = <<>>
    /\ trigger = <<0>>
    /\ lastEvent = "mount"
    /\ call = NoCall

\* setMessages with the spread of prev forgotten
replaceMessages(prev, message) == <<message>>

\* setMessages with the new message put in front of the list
prependMessage(prev, message) == <<message>> \o prev

\* setMessages((prev) => [...prev, message])
appendMessage(prev, message) == Append(prev, message)

\* a guard that forgets the pending flag
rejectsBlankOnly(trimmed, thinking) == ~Truthy(trimmed)

\* if (!trimmed || isThinking) return;
rejects(trimmed, thinking) == ~Truthy(trimmed) \/ thinking

\* the trimmed input as queueUserMessage reads it
trimmedInput(text) == trim(text)

\* setIsThinking(false) left out of the timer callback
stillThinking == TRUE

\* setIsThinking(false)
doneThinking == FALSE

\* the values the handlers of the next render capture: a render that takes every
\* pending update, or one that takes only the updates of the event just handled
\* (the timer callback's updates are rendered at a lower priority)
RenderAfterEvent(newInput, newMode) ==
    \/ closure' = [messages |-> messages', input |-> newInput, mode |-> newMode,
                   isThinking |-> isThinking']
    \/ closure' = [closure EXCEPT !.input = newInput, !.mode = newMode]

\* queueUserMessage, from the form's onSubmit (handleSubmit) or from Enter in the
\* textarea; it reads input, isThinking, mode and messages of the last render
queueUserMessage ==
    LET trimmed == trimmedInput(closure.input)
        userMessage == [author |-> "user", content |-> trimmed, hint |-> ""]
        picked == pickNarrative(trimmed)
        agentContent == formatAgentMessage(trimmed, closure.mode, picked.narrative,
                                           picked.steps,
                                           Append(closure.messages, userMessage))
        agentMessage == [author |-> "agent", content |-> agentContent,
                         hint |-> "Calibrated plan ready"]
    IN  /\ lastEvent' = "submit"
        /\ call' = call
        /\ IF rejects(trimmed, closure.isThinking)
           THEN UNCHANGED <<messages, input, mode, isThinking, closure, timers, trigger>>
           ELSE /\ Len(SelectSeq(messages, IsUser)) < MaxSubmits
                /\ messages' = appendMessage(messages, userMessage)
                /\ input' = ""
                /\ isThinking' = TRUE
                /\ mode' = mode
                /\ timers' = Append(timers, [agentMessage |-> agentMessage,
                                             trigger |-> Len(messages) + 1])
                /\ trigger' = Append(trigger, 0)
                /\ closure' = [messages |-> messages', input |-> "", mode |-> mode,
                               isThinking |-> TRUE]

\* the form's onSubmit; the submit button is disabled on the very test
\* queueUserMessage starts with, which the handler does not rely on
handleSubmit == queueUserMessage

onKeyDownEnter == queueUserMessage

\* the setTimeout callback of a scheduled reply
TimerFire ==
    \E i \in 1..Len(timers) :
        /\ messages' = appendMessage(messages, timers[i].agentMessage)
        /\ isThinking' = doneThinking
        /\ trigger' = Append(trigger, timers[i].trigger)
        /\ timers' = SubSeq(timers, 1, i - 1) \o SubSeq(timers, i + 1, Len(timers))
        /\ lastEvent' = "timer"
        /\ UNCHANGED <<input, mode, closure, call>>

\* Home runs again and its handlers capture the current state
Render ==
    /\ closure # [messages |-> messages, input |-> input, mode |-> mode,
                  isThinking |-> isThinking]
    /\ closure' = [messages |-> messages, input |-> input, mode |-> mode,
                   isThinking |-> isThinking]
    /\ lastEvent' = "render"
    /\ UNCHANGED <<messages, input, mode, isThinking, timers, trigger, call>>

\* onChange of the textarea
onChange ==
    \E text \in TypedTexts :
        /\ input' = text
        /\ lastEvent' = "change"
        /\ UNCHANGED <<messages, mode, isThinking, timers, trigger, call>>
        /\ RenderAfterEvent(text, mode)

toggleMode ==
    \E key \in ModeKeys :
        /\ mode' = [mode EXCEPT ![key] = ~mode[key]]
        /\ lastEvent' = "toggle"
        /\ UNCHANGED <<messages, input, isThinking, timers, trigger, call>>
        /\ RenderAfterEvent(input, mode')

acceptQuickPrompt ==
    \E p \in ClickedPrompts :
        /\ input' = quickPrompts[p]
        /\ lastEvent' = "prompt"
        /\ UNCHANGED <<messages, mode, isThinking, timers, trigger, call>>
        /\ RenderAfterEvent(quickPrompts[p], mode)

Next ==
    \/ handleSubmit
    \/ onKeyDownEnter
    \/ TimerFire
    \/ Render
    \/ onChange
    \/ toggleMode
    \/ acceptQuickPrompt

Spec == Init /\ [][Next]_vars

\* setTimeout runs every callback it was handed
FairSpec == Spec /\ WF_vars(TimerFire)

----------------------------------------------------------------------------
(* Direct calls of the pure functions *)

\* words an input to the matcher is made of; rules: the table positions of the
\* rules a keyword of which the word holds
Vocabulary ==
    << [text |-> "PLAN",         rules |-> {1}],
       [text |-> "Roadmaps",     rules |-> {1}],
       [text |-> "milestone",    rules |-> {1}],
       [text |-> "Strategy",     rules |-> {1}],
       [text |-> "content",      rules |-> {2}],
       [text |-> "reWrite",      rules |-> {2}],
       [text |-> "copy",         rules |-> {2}],
       [text |-> "compost",      rules |-> {2}],
       [text |-> "research",     rules |-> {3}],
       [text |-> "Analyze",      rules |-> {3}],
       [text |-> "compare",      rules |-> {3}],
       [text |-> "study",        rules |-> {3}],
       [text |-> "code",         rules |-> {4}],
       [text |-> "rebuild",      rules |-> {4}],
       [text |-> "ARCHITECTURE", rules |-> {4}],
       [text |-> "feature",      rules |-> {4}],
       [text |-> "postcode",     rules |-> {2, 4}],
       [text |-> "hello",        rules |-> {}],
       [text |-> "pla n",        rules |-> {}],
       [text |-> "analyse",      rules |-> {}],
       [text |-> quickPrompts[1], rules |-> {1}],
       [text |-> quickPrompts[2], rules |-> {3}],
       [text |-> quickPrompts[3], rules |-> {2}],
       [text |-> quickPrompts[4], rules |-> {}] >>

WordLists == UNION {[1..n -> 1..Len(Vocabulary)] : n \in 0..MaxWords}

TextOf(words) == join([i \in 1..Len(words) |-> Vocabulary[words[i]].text], " ")

CallPickNarrative ==
    \E words \in WordLists :
        /\ call = NoCall
        /\ call' = [fn |-> "pickNarrative",
                    args |-> [words |-> words, prompt |-> TextOf(words)],
                    result |-> pickNarrative(TextOf(words))]
        /\ UNCHANGED uiVars

Modes == [analysis : BOOLEAN, planning : BOOLEAN, summary : BOOLEAN]

\* the rules handed to the formatter: those of the table, the default one, and one
\* with neither narrative nor steps
Responses ==
    {[narrative |-> heuristics[i].narrative, steps |-> heuristics[i].steps] :
        i \in 1..Len(heuristics)}
    \cup {defaultResponse, [narrative |-> "", steps |-> <<>>]}

Histories ==
    { <<>>,
      initialMessages,
      Append(initialMessages, [author |-> "user", content |-> "first", hint |-> ""]),
      initialMessages \o << [author |-> "user", content |-> "first", hint |-> ""],
                            [author |-> "agent", content |-> "reply", hint |-> ""],
                            [author |-> "user", content |-> " second ", hint |-> ""],
                            [author |-> "system", content |-> "note", hint |-> ""],
                            [author |-> "user", content |-> "third", hint |-> ""] >> }

FormatInputs == {"", "hello", " Compare  the\tplans \n"}

CallFormatAgentMessage ==
    \E text \in FormatInputs, m \in Modes, r \in Responses, h \in Histories :
        /\ call = NoCall
        /\ call' = [fn |-> "formatAgentMessage",
                    args |-> [input |-> text, mode |-> m, narrative |-> r.narrative,
                              steps |-> r.steps, messageHistory |-> h],
                    result |-> formatAgentMessage(text, m, r.narrative, r.steps, h)]
        /\ UNCHANGED uiVars

RECURSIVE Repeat(_, _)
Repeat(c, n) ==
    IF n = 0 THEN ""
    ELSE IF n = 1 THEN c
    ELSE Repeat(c, n \div 2) \o Repeat(c, n - (n \div 2))

StepLists == { <<>>, <<"A", "B", "C">>, defaultResponse.steps }

\* a prompt: white space, n times "a", white space, m times "b", white space
PromptOf(lead, n, gap, m, trail) == lead \o Repeat("a", n) \o gap \o Repeat("b", m) \o trail

CallSummarizePrimaryTask ==
    \E lead \in {"", " \n"}, n \in 0..MaxPromptLen, gap \in {"", " ", "\t \n"},
       m \in 0..1, trail \in {"", "  "}, steps \in StepLists :
        /\ call = NoCall
        /\ call' = [fn |-> "summarizePrimaryTask",
                    args |-> [lead |-> lead, n |-> n, gap |-> gap, m |-> m,
                              trail |-> trail, steps |-> steps],
                    result |-> summarizePrimaryTask(PromptOf(lead, n, gap, m, trail), steps)]
        /\ UNCHANGED uiVars

FnNext ==
    \/ CallPickNarrative
    \/ CallFormatAgentMessage
    \/ CallSummarizePrimaryTask

FnSpec == Init /\ [][FnNext]_vars

----------------------------------------------------------------------------
(* Vocabulary of the properties *)

\* s holds nothing but white space
Blank(s) == \A i \in 1..Len(s) : IsSpace(CharAt(s, i))

IsPrefix(a, b) == Len(a) <= Len(b) /\ SubSeq(b, 1, Len(a)) = a

EndsWith(s, suffix) ==
    Len(suffix) <= Len(s) /\ SubSeq(s, Len(s) - Len(suffix) + 1, Len(s)) = suffix

\* the positions at which sub occurs in s
Occurrences(s, sub) == {i \in 1..(Len(s) - Len(sub) + 1) : SubSeq(s, i, i + Len(sub) - 1) = sub}

Count(s, sub) == Cardinality(Occurrences(s, sub))

Least(S) == CHOOSE x \in S : \A y \in S : x <= y

Users(msgs) == Len(SelectSeq(msgs, IsUser))

Agents(msgs) == Len(msgs) - Users(msgs)

UserMessageOf(text) == [author |-> "user", content |-> text, hint |-> ""]

----------------------------------------------------------------------------
(* Properties of the conversation controller *)

\* C1: while a response is pending (from the step that appends the user message to
\* the step that appends the agent reply) a submit, whatever the input, changes
\* neither the conversation nor the scheduled replies, and the conversation keeps
\* its length for the whole interval.
C1_PendingSubmitDropped ==
    [][ /\ (isThinking /\ lastEvent' = "submit") =>
               (messages' = messages /\ timers' = timers /\ isThinking')
        /\ (isThinking /\ isThinking') => Len(messages') = Len(messages) ]_vars

\* a submit of a non-blank input has just been attempted while a reply is pending
C1_Witness ==
    lastEvent = "submit" /\ isThinking /\ ~Blank(input) /\ Len(timers) = 1

\* C2: a submit of an empty or white-space-only input leaves the conversation, the
\* input text, the pending flag and the mode flags as they are and schedules no
\* reply, pending or not.
C2_BlankSubmitNoOp ==
    [][ (lastEvent' = "submit" /\ Blank(input)) =>
            UNCHANGED <<messages, input, isThinking, mode, timers>> ]_vars

\* a white-space-only input has just been submitted while idle
C2_Witness ==
    lastEvent = "submit" /\ input # "" /\ Blank(input) /\ ~isThinking

\* C3: every step leaves the conversation it started from as a prefix of the
\* conversation it ends with.
C3_AppendOnly == [][IsPrefix(messages, messages')]_vars

\* a user message and its reply have been appended and the modes toggled since
C3_Witness ==
    Len(messages) >= 3 /\ lastEvent = "toggle" /\ ~mode.analysis

\* C4 as stated: every agent message has, at an earlier position, the user message
\* that triggered it.
C4_EveryAgentMessageTriggered ==
    \A i \in 1..Len(messages) :
        messages[i].author = "agent" =>
            (trigger[i] \in 1..(i - 1) /\ messages[trigger[i]].author = "user")

\* C4 amended: the greeting the conversation starts with has no trigger; every
\* later agent message has, at an earlier position, the user message that
\* triggered it.
C4_RepliesTriggered ==
    /\ messages[1] = initialMessages[1] /\ trigger[1] = 0
    /\ Len(trigger) = Len(messages)
    /\ \A i \in 2..Len(messages) :
           messages[i].author = "agent" =>
               (trigger[i] \in 1..(i - 1) /\ messages[trigger[i]].author = "user")

\* two replies have been delivered
C4_Witness ==
    Len(messages) >= 5 /\ messages[5].author = "agent" /\ trigger[5] = 4

\* C5: a submit of a non-blank input read while the handler's pending flag is clear
\* appends the user message, clears the input and sets pending in that step; while
\* pending lasts the conversation stays as it is; the step that clears pending
\* appends one message, the agent reply to the user message that set it; and,
\* the timer callback being run, every pending state leads to an idle one.
C5_IdlePendingIdle ==
    /\ [][ (lastEvent' = "submit" /\ ~Blank(input) /\ ~closure.isThinking) =>
               /\ Len(messages') = Len(messages) + 1
               /\ IsPrefix(messages, messages')
               /\ messages'[Len(messages')].author = "user"
               /\ input' = ""
               /\ ~isThinking /\ isThinking' ]_vars
    /\ [][ (isThinking /\ isThinking') => messages' = messages ]_vars
    /\ [][ (isThinking /\ ~isThinking') =>
               /\ Len(messages') = Len(messages) + 1
               /\ IsPrefix(messages, messages')
               /\ messages'[Len(messages')].author = "agent"
               /\ messages[Len(messages)].author = "user"
               /\ trigger'[Len(messages')] = Len(messages) ]_vars
    /\ isThinking ~> ~isThinking

\* the reply to the second submit has just been delivered
C5_Witness ==
    lastEvent = "timer" /\ ~isThinking /\ Len(messages) = 5

\* C8 as stated, for the reply to the first submit of a session: with the analysis
\* flag set it holds the narrative and no "Recent signals" block.
C8_FirstReplyWithoutSignals ==
    (Len(messages) >= 3 /\ includes(messages[3].content, "**Analysis**")) =>
        /\ includes(messages[3].content, pickNarrative(messages[2].content).narrative)
        /\ ~includes(messages[3].content, "Recent signals:")

\* C10: at most one reply is scheduled, one is scheduled exactly when pending is
\* set, the messages after the greeting alternate user, agent, and the user
\* messages outnumber the replies by one when pending and by none when idle.
C10_OneInFlight ==
    /\ Len(timers) <= 1
    /\ (Len(timers) = 1) <=> isThinking
    /\ \A i \in 2..Len(messages) :
           messages[i].author = (IF i % 2 = 0 THEN "user" ELSE "agent")
    /\ Users(messages) - (Agents(messages) - 1) = (IF isThinking THEN 1 ELSE 0)

\* the second submit is pending
C10_Witness ==
    isThinking /\ Len(messages) = 4 /\ Len(timers) = 1

----------------------------------------------------------------------------
(* Properties of the pure functions *)

\* the rules the words of a matcher input hold a keyword of
RulesHit(words) == UNION {Vocabulary[words[i]].rules : i \in 1..Len(words)}

\* C6: the matcher returns the rule earliest in the table among those with a
\* keyword in the lowercased input, wherever in the input the keywords stand, and
\* the default rule when the input holds no keyword.
C6_FirstRuleWins ==
    call.fn = "pickNarrative" =>
        LET hit == RulesHit(call.args.words)
        IN  IF hit = {} THEN call.result = defaultResponse
            ELSE call.result = heuristics[Least(hit)]

\* an input whose first word belongs to a later rule than its second word
C6_Witness ==
    /\ call.fn = "pickNarrative"
    /\ Len(call.args.words) = 2
    /\ Vocabulary[call.args.words[1]].rules = {4}
    /\ Vocabulary[call.args.words[2]].rules = {1}
    /\ call.result = heuristics[1]

Headers == <<"**Analysis**", "**Plan**", "**Next Move**">>

FlagOf(m, h) == <<m.analysis, m.planning, m.summary>>[h]

\* C7: the formatter's result holds the header of a segment once if its flag is
\* set and not at all otherwise, the headers in the order Analysis, Plan, Next
\* Move, the first at the start and each later one right after a blank line, no
\* other blank line, and it is empty when no flag is set.
C7_SegmentsByFlags ==
    call.fn = "formatAgentMessage" =>
        LET r == call.result
            m == call.args.mode
            present == {h \in 1..3 : FlagOf(m, h)}
            at(h) == Least(Occurrences(r, Headers[h]))
        IN  /\ \A h \in 1..3 : Count(r, Headers[h]) = (IF h \in present THEN 1 ELSE 0)
            /\ \A g, h \in present : g < h => at(g) < at(h)
            /\ \A h \in present :
                   IF h = Least(present) THEN at(h) = 1
                   ELSE SubSeq(r, at(h) - 2, at(h) - 1) = "\n\n"
            /\ Count(r, "\n\n") = (IF present = {} THEN 0 ELSE Cardinality(present) - 1)
            /\ (present = {} => r = "")

\* Analysis and Next Move without Plan
C7_Witness ==
    /\ call.fn = "formatAgentMessage"
    /\ call.args.mode = [analysis |-> TRUE, planning |-> FALSE, summary |-> TRUE]
    /\ call.args.steps # <<>>
    /\ Count(call.result, "\n\n") = 1

\* the white-space-collapsed, trimmed form of each input handed to the formatter
ConciseOf(text) ==
    CASE text = "" -> ""
      [] text = "hello" -> "hello"
      [] text = " Compare  the\tplans \n" -> "Compare the plans"

\* C9: the primary task is the collapsed, trimmed prompt when that is non-empty and
\* shorter than 120 characters, else the first plan step, else a fixed phrase; and
\* the Next Move segment ends the reply with that task.
C9_PrimaryTask ==
    /\ call.fn = "summarizePrimaryTask" =>
           LET a == call.args
               sep == IF a.n > 0 /\ a.m > 0 /\ a.gap # "" THEN " " ELSE ""
               concise == Repeat("a", a.n) \o sep \o Repeat("b", a.m)
           IN  call.result =
                   IF Len(concise) > 0 /\ Len(concise) < 120 THEN concise
                   ELSE IF a.steps # <<>> THEN a.steps[1]
                   ELSE IF Len(concise) = 0 THEN "Establishing context"
                   ELSE "Defining the objective"
    /\ (call.fn = "formatAgentMessage" /\ call.args.mode.summary) =>
           LET a == call.args
               concise == ConciseOf(a.input)
               task == IF concise # "" THEN concise
                       ELSE IF a.steps # <<>> THEN a.steps[1]
                       ELSE "Establishing context"
           IN  EndsWith(call.result, "**Next Move**\nI'll start by focusing on: " \o task)

\* a prompt of 123 characters whose collapsed, trimmed form has exactly 120
C9_Witness ==
    /\ call.fn = "summarizePrimaryTask"
    /\ call.args.n = 118 /\ call.args.m = 1 /\ call.args.gap = "\t \n"
    /\ call.args.lead = "" /\ call.args.trail = ""
    /\ call.args.steps = <<"A", "B", "C">>
    /\ call.result = "A"

====
